---- MODULE Spec2Model ----
\* A model of gr_file_meta_sink (gnuradio-core/src/lib/io/gr_file_meta_sink.cc):
\* the writer of a stream of fixed-size items into segments, each described by
\* a header record, in one file (inline) or in a header file and a payload
\* file (detached), with rotation of the output file by open()/do_update().
\*
\* Lengths are counted in cells. A file is a sequence of cells; a cell is one
\* unit of a serialized header, of a serialized extension dictionary, or of a
\* payload item. The fixed header is METADATA_HEADER_SIZE cells long as long
\* as every field holds a value of its schema type.
EXTENDS Integers, Sequences, FiniteSets, TLC

\* ------------------------------------------------------------------ bounds

\* Length of the item stream the scheduler hands to work() in total.
MaxItems == 3
\* Number of calls (open() and close()) made by the control path after
\* construction.
MaxCtl == 2
\* Number of I/O faults (a failing ::open or fdopen, an fwrite that returns
\* less than asked) injected over a run.
MaxFaults == 1
\* Number of work() calls that return 0, after which the scheduler gives up.
MaxStalls == 2
\* Number of annotations (tags) on the stream; no two carry the same key.
MaxTags == 2
\* Largest seconds field of a timestamp handed to update_rx_time on its own.
MaxSecs == 10

\* --------------------------------------------------------------- constants

\* gr_file_meta_sink.h: the serialized size of the standard header, in cells.
METADATA_HEADER_SIZE == 2

\* Construction parameters the model draws from.
ItemSizes == {2}
MaxSegSizes == {2}
\* Rates are fixed-point: d_relative_rate counts halves (1 is 0.5, 2 is 1.0),
\* d_samp_rate counts items per second, and a stored rx_rate counts halves of
\* an item per second (d_samp_rate * d_relative_rate).
RelDen == 2
SampRates == {4}
RelativeRates == {1}
\* Timestamps are fixed-point: the fraction counts 1/TimeDen seconds.
TimeDen == 10

\* ------------------------------------------------------------------ values

\* A pmt value: v is what it holds, wide says that its serialization is
\* longer than the schema type's.
Val(x) == [v |-> x, wide |-> FALSE]
WideVal(x) == [v |-> x, wide |-> TRUE]

HeaderKeys == {"version", "rx_rate", "rx_time", "size", "type", "cplx", "strt", "bytes"}

Min(a, b) == IF a < b THEN a ELSE b

\* pmt_dict_add(dict, key, value)
pmt_dict_add(dict, key, value) ==
  [k \in (DOMAIN dict) \cup {key} |-> IF k = key THEN value ELSE dict[k]]

\* pmt_serialize_str(header).size()
HeaderLen(header) ==
  METADATA_HEADER_SIZE + Cardinality({k \in DOMAIN header : header[k].wide})

\* pmt_serialize_str(extra).size(): one cell per entry, two for a wide value.
RECURSIVE SumLen(_, _)
SumLen(extra, keys) ==
  IF keys = {} THEN 0
  ELSE LET k == CHOOSE x \in keys : TRUE
       IN (IF extra[k].wide THEN 2 ELSE 1) + SumLen(extra, keys \ {k})

ExtraLen(extra) == SumLen(extra, DOMAIN extra)

\* pmt_serialize_str(header) and pmt_serialize_str(extra) as cells.
SerializeHeader(header) ==
  [i \in 1..HeaderLen(header) |-> [k |-> "H", d |-> header, i |-> i]]

SerializeExtra(extra) ==
  [i \in 1..ExtraLen(extra) |-> [k |-> "E", d |-> extra, i |-> i]]

\* The cells of `count` payload items starting at stream item `first`.
PayloadCells(first, count, itemsize) ==
  [j \in 1..(count * itemsize) |->
     [k |-> "P", item |-> first + ((j - 1) \div itemsize), i |-> ((j - 1) % itemsize) + 1]]

\* A cell never written (a hole left by a seek past the end of the file).
ZeroCell == [k |-> "Z"]

\* ------------------------------------------------------------------- stdio

\* A world w is the sink object's fields together with the file system
\* (w.files), the exception in flight (w.err), and the inputs of the running
\* call: w.io, the results of its coming fwrite calls ("ok", "short", "zero"),
\* and w.ub, what a use of a null or closed FILE* does in this build ("crash":
\* the process dies; "noeffect": the call fails and returns).
\* ::open + fdopen: a new, empty file and its handle (the index in w.files).
NewFile(gen, is_hdr) ==
  [cells |-> <<>>, pos |-> 0, open |-> TRUE, gen |-> gen, hdr |-> is_hdr]

\* fp is a FILE* that stdio may be called on.
stdio_ok(w, fp) == fp \in 1..Len(w.files) /\ w.files[fp].open

\* A stdio call on a null or closed FILE*.
ub_hit(w) == IF w.ub = "crash" THEN [w EXCEPT !.err = "segv"] ELSE w

NextIO(w) == IF Len(w.io) = 0 THEN "ok" ELSE Head(w.io)
PopIO(w) == IF Len(w.io) = 0 THEN w ELSE [w EXCEPT !.io = Tail(w.io)]

\* The file after fwrite of cells cs at its position.
WriteCells(f, cs) ==
  IF Len(cs) = 0 THEN f
  ELSE LET base == IF f.pos > Len(f.cells)
                   THEN f.cells \o [i \in 1..(f.pos - Len(f.cells)) |-> ZeroCell]
                   ELSE f.cells
       IN [f EXCEPT !.cells = SubSeq(base, 1, f.pos) \o cs
                               \o SubSeq(base, f.pos + Len(cs) + 1, Len(base)),
                    !.pos = f.pos + Len(cs)]

\* fclose(fp)
fclose(w, fp) ==
  IF w.err # "none" THEN w
  ELSE IF ~stdio_ok(w, fp) THEN ub_hit(w)
  ELSE [w EXCEPT !.files[fp].open = FALSE]

\* fseek(fp, off, SEEK_CUR); a seek before the start of the file fails and
\* leaves the position alone, and the code does not look at the result.
fseek(w, fp, off) ==
  IF w.err # "none" THEN w
  ELSE IF ~stdio_ok(w, fp) THEN ub_hit(w)
  ELSE IF w.files[fp].pos + off < 0 THEN w
  ELSE [w EXCEPT !.files[fp].pos = w.files[fp].pos + off]

\* --------------------------------------------------------- write_header

\* One of the two while loops of write_header: fwrite until str is out.
RECURSIVE write_string(_, _, _)
write_string(w, fp, str) ==
  IF w.err # "none" \/ Len(str) = 0 THEN w
  ELSE IF ~stdio_ok(w, fp)
       THEN IF w.ub = "crash" THEN [w EXCEPT !.err = "segv"]
            ELSE [w EXCEPT !.err = "io_error"]
  ELSE LET r == NextIO(w)
           count == IF r = "zero" THEN 0
                    ELSE IF r = "short" /\ Len(str) > 1 THEN 1
                    ELSE Len(str)
           w1 == PopIO(w)
       IN IF count = 0
          THEN [fclose(w1, fp) EXCEPT !.err = "io_error"]
          ELSE write_string(
                 [w1 EXCEPT !.files[fp] = WriteCells(w1.files[fp], SubSeq(str, 1, count))],
                 fp, SubSeq(str, count + 1, Len(str)))

\* The size check of write_header: TRUE when it throws.
size_mismatch(w, header_str, extra_str) ==
  (Len(header_str) # METADATA_HEADER_SIZE) /\ (Len(extra_str) # w.d_extra_size)

write_header(w, fp, header, extra) ==
  IF w.err # "none" THEN w
  ELSE LET header_str == SerializeHeader(header)
           extra_str == SerializeExtra(extra)
       IN IF size_mismatch(w, header_str, extra_str)
          THEN [w EXCEPT !.err = "size_mismatch"]
          ELSE write_string(write_string(w, fp, header_str), fp, extra_str)

\* -------------------------------------------------------- update_header

update_header(w, key, value) ==
  IF w.err # "none" THEN w
  ELSE LET rate == key = "rx_rate"
           w1 == IF rate THEN [w EXCEPT !.d_samp_rate = value.v] ELSE w
           val == IF rate THEN Val(w1.d_samp_rate * w1.d_relative_rate) ELSE value
       IN IF key \in DOMAIN w1.d_header
          THEN [w1 EXCEPT !.d_header = pmt_dict_add(w1.d_header, key, val)]
          ELSE LET e == pmt_dict_add(w1.d_extra, key, val)
               IN [w1 EXCEPT !.d_extra = e, !.d_extra_size = ExtraLen(e)]

\* --------------------------------------------------- update_last_header

\* seg_size of update_last_header_inline / _detached.
seg_size_mut(w) == w.d_total_seg_size
seg_size(w) == w.d_itemsize * w.d_total_seg_size

\* update_header(mp("strt"), pmt_from_uint64(METADATA_HEADER_SIZE + d_extra_size))
update_strt(w) == update_header(w, "strt", Val(METADATA_HEADER_SIZE + w.d_extra_size))

\* fseek(d_fp, off, SEEK_CUR) and fseek(d_hdr_fp, off, SEEK_CUR)
fseek_d_fp(w, off) == fseek(w, w.d_fp, off)
fseek_d_hdr_fp(w, off) == fseek(w, w.d_hdr_fp, off)

\* write_header(d_fp, d_header, d_extra) and write_header(d_hdr_fp, d_header, d_extra)
write_header_d_fp(w) == write_header(w, w.d_fp, w.d_header, w.d_extra)
write_header_d_hdr_fp(w) == write_header(w, w.d_hdr_fp, w.d_header, w.d_extra)

\* The statements run in the order of the source: the innermost first.
update_last_header_inline(w) ==
  IF w.err # "none" THEN w
  ELSE LET hdrlen == w.d_header["strt"].v
           seg == seg_size(w)
       IN fseek_d_fp(
            write_header_d_fp(
              fseek_d_fp(update_strt(update_header(w, "bytes", Val(seg))),
                         0 - seg - hdrlen)),
            seg)

update_last_header_detached(w) ==
  IF w.err # "none" THEN w
  ELSE LET hdrlen == w.d_header["strt"].v
           seg == seg_size(w)
       IN write_header_d_hdr_fp(
            fseek_d_hdr_fp(update_strt(update_header(w, "bytes", Val(seg))),
                           0 - hdrlen))

update_last_header(w) ==
  IF w.d_state = "DETACHED" THEN update_last_header_detached(w)
  ELSE update_last_header_inline(w)

\* ----------------------------------------------------- write_and_update

\* if(d_state == STATE_DETACHED) write_header(d_hdr_fp, ...) else write_header(d_fp, ...)
write_header_by_state(w) ==
  IF w.d_state = "DETACHED" THEN write_header_d_hdr_fp(w) ELSE write_header_d_fp(w)

write_and_update(w) ==
  IF w.err # "none" THEN w
  ELSE write_header_by_state(update_strt(update_header(w, "bytes", Val(0))))

\* ------------------------------------------------------- update_rx_time

\* update_rx_time without the carry into the seconds.
update_rx_time_mut(w) ==
  IF w.err # "none" THEN w
  ELSE LET r == w.d_header["rx_time"].v
           diff == (w.d_total_seg_size * RelDen * TimeDen)
                     \div (w.d_samp_rate * w.d_relative_rate)
       IN [w EXCEPT !.d_header = pmt_dict_add(w.d_header, "rx_time",
                                              Val(<<r[1], r[2] + diff>>))]

\* diff = d_total_seg_size / (d_samp_rate * d_relative_rate), in 1/TimeDen s.
update_rx_time(w) ==
  IF w.err # "none" THEN w
  ELSE LET r == w.d_header["rx_time"].v
           secs == r[1]
           fracs == r[2]
           diff == (w.d_total_seg_size * RelDen * TimeDen)
                     \div (w.d_samp_rate * w.d_relative_rate)
           fracs1 == fracs + diff
           new_secs == fracs1 \div TimeDen
       IN [w EXCEPT !.d_header = pmt_dict_add(w.d_header, "rx_time",
                                   Val(<<secs + new_secs, fracs1 - new_secs * TimeDen>>))]

\* w2 unless an exception is in flight in w (the statement is not reached).
Guard(w, w2) == IF w.err # "none" THEN w ELSE w2

\* ------------------------------------------------------------ do_update

\* The block of do_update that runs under d_mutex.
do_update_locked(w) ==
  LET w1 == IF w.d_state = "DETACHED"
            THEN LET a == IF w.d_hdr_fp # 0 THEN fclose(w, w.d_hdr_fp) ELSE w
                 IN Guard(a, [a EXCEPT !.d_hdr_fp = a.d_new_hdr_fp, !.d_new_hdr_fp = 0])
            ELSE w
      w2 == IF w1.d_fp # 0 THEN fclose(w1, w1.d_fp) ELSE w1
  IN Guard(w2, [w2 EXCEPT !.d_fp = w2.d_new_fp, !.d_new_fp = 0, !.d_updated = FALSE])

do_update(w) ==
  IF w.err # "none" THEN w
  ELSE IF w.d_updated THEN do_update_locked(w)
  ELSE w

\* ---------------------------------------------------------- open, _open

\* What ::open and fdopen do in one call of _open.
OpenResults == {"ok", "open_fails", "fdopen_fails"}

\* _open(&slot, filename); slot is "d_new_hdr_fp" or "d_new_fp". The result
\* of the call is left in w.ret. With a handle already in the slot the code
\* closes it, zeroes its local fp and then stores through fp: a store through
\* a null pointer, which kills the process or is dropped by the build (the
\* slot then keeps the closed handle and ret = (fp != 0) is false).
_open(w, slot, res) ==
  IF w.err # "none" THEN w
  ELSE IF res = "open_fails" THEN [w EXCEPT !.ret = FALSE]
  ELSE IF w[slot] # 0
       THEN LET w1 == fclose(w, w[slot])
            IN IF w1.err # "none" THEN w1
               ELSE IF w1.ub = "crash" THEN [w1 EXCEPT !.err = "segv"]
               ELSE [w1 EXCEPT !.ret = FALSE]
  ELSE IF res = "fdopen_fails" THEN [w EXCEPT ![slot] = 0, !.ret = TRUE]
  ELSE [w EXCEPT !.files = Append(@, NewFile(w.n_opens, slot = "d_new_hdr_fp")),
                 ![slot] = Len(w.files) + 1,
                 !.ret = TRUE]

\* The first statement of open(): _open of the header file in detached mode.
open_hdr(w, res_hdr) ==
  LET w0 == [w EXCEPT !.n_opens = @ + 1, !.ret = TRUE]
  IN IF w0.d_state = "DETACHED" THEN _open(w0, "d_new_hdr_fp", res_hdr) ELSE w0

\* ret = ret && _open(&d_new_fp, filename)
open_payload(w, res_payload) ==
  IF w.err = "none" /\ w.ret THEN _open(w, "d_new_fp", res_payload) ELSE w

\* d_updated = true; return ret
open_flag(w) == Guard(w, [w EXCEPT !.d_updated = TRUE])

open(w, res_hdr, res_payload) ==
  open_flag(open_payload(open_hdr(w, res_hdr), res_payload))

\* ---------------------------------------------------------------- close

\* if(d_state == STATE_DETACHED) { if(d_new_hdr_fp) { fclose; d_new_hdr_fp = 0; } }
close_new_hdr_fp(w) ==
  IF w.err = "none" /\ w.d_state = "DETACHED" /\ w.d_new_hdr_fp # 0
  THEN LET a == fclose(w, w.d_new_hdr_fp)
       IN Guard(a, [a EXCEPT !.d_new_hdr_fp = 0])
  ELSE w

\* if(d_new_fp) { fclose(d_new_fp); d_new_fp = 0; }
close_new_fp(w) ==
  IF w.err = "none" /\ w.d_new_fp # 0
  THEN LET a == fclose(w, w.d_new_fp)
       IN Guard(a, [a EXCEPT !.d_new_fp = 0])
  ELSE w

\* d_updated = true
close_flag(w) == Guard(w, [w EXCEPT !.d_updated = TRUE])

close(w) == close_flag(close_new_fp(close_new_hdr_fp(update_last_header(w))))

\* ----------------------------------------------------------------- work

\* get_tags_in_range(all_tags, 0, abs_N, end_N): the tags of the stream with
\* abs_N <= offset < end_N, in stream order.
get_tags_in_range(tags, abs_N, end_N) ==
  SelectSeq(tags, LAMBDA t : abs_N <= t.offset /\ t.offset < end_N)

\* std::min(d_max_seg_size - d_total_seg_size, remaining)
towrite_mut(w, remaining) == remaining
towrite(w, remaining) == Min(w.d_max_seg_size - w.d_total_seg_size, remaining)

\* What the call has done, for the record of the call: zero_at is nwritten at
\* the first payload fwrite that returned 0 (-1 if none), after_zero says that
\* a payload fwrite or a tag came after it.
note_fwrite(w) ==
  IF w.zero_at >= 0 THEN [w EXCEPT !.after_zero = TRUE]
  ELSE IF w.count = 0 THEN [w EXCEPT !.zero_at = w.nwritten]
  ELSE w

note_tag(w, tag) ==
  [w EXCEPT !.after_zero = @ \/ (w.zero_at >= 0),
            !.tag_log = @ \cup {[offset |-> tag.offset, at |-> w.nitems_read + w.nwritten]}]

\* count = fwrite(inbuf, d_itemsize, towrite, d_fp); inbuf is at stream item
\* nitems_read + nwritten. The count is left in w.count.
fwrite_items(w, n) ==
  IF ~stdio_ok(w, w.d_fp)
  THEN IF w.ub = "crash" THEN [w EXCEPT !.err = "segv"]
       ELSE note_fwrite([w EXCEPT !.count = 0])
  ELSE LET r == NextIO(w)
           count == IF r = "zero" THEN 0
                    ELSE IF r = "short" /\ n > 1 THEN 1
                    ELSE n
           w1 == PopIO(w)
       IN note_fwrite(
            [w1 EXCEPT !.files[w.d_fp] =
                         WriteCells(@, PayloadCells(w.nitems_read + w.nwritten, count, w.d_itemsize)),
                       !.count = count])

\* The size-triggered boundary: lines 415-418 and 446-449.
\* d_total_seg_size = 0
reset_seg_size(w) == Guard(w, [w EXCEPT !.d_total_seg_size = 0])

\* A timestamp (secs, fracs) in 1/TimeDen seconds.
Ticks(t) == t[1] * TimeDen + t[2]

\* d_max_seg_size items at the rate d_samp_rate * d_relative_rate, in 1/TimeDen s.
Elapsed(w) ==
  (w.d_max_seg_size * RelDen * TimeDen) \div (w.d_samp_rate * w.d_relative_rate)

\* The rx_time of the header record write_header has just written (the file
\* position is behind its extension).
emitted_rx_time(w) ==
  LET f == w.files[IF w.d_state = "DETACHED" THEN w.d_hdr_fp ELSE w.d_fp]
      start == f.pos - ExtraLen(w.d_extra) - HeaderLen(w.d_header) + 1
  IN IF start \in 1..Len(f.cells) /\ f.cells[start].k = "H"
     THEN f.cells[start].d["rx_time"].v
     ELSE <<-1, -1>>

\* For the record of the call: w1 is what a size-triggered boundary made of
\* w0. ts_ok says that every boundary of the call so far treated rx_time as
\* it should: here, that the header emitted carries rx_time of w0 advanced by
\* Elapsed(w0).
note_size_boundary(w0, w1) ==
  IF w1.err # "none" THEN w1
  ELSE [w1 EXCEPT !.n_size = @ + 1,
                  !.ts_ok = @ /\ emitted_rx_time(w1) = w1.d_header["rx_time"].v
                              /\ Ticks(w1.d_header["rx_time"].v)
                                   = Ticks(w0.d_header["rx_time"].v) + Elapsed(w0)]

\* w1 is what a tag that closed a segment with payload made of w0: the
\* header emitted carries rx_time of w0, unless the tag sets it.
note_early_close(w0, w1, tag) ==
  IF w1.err # "none" THEN w1
  ELSE [w1 EXCEPT !.n_early = @ + 1,
                  !.ts_ok = @ /\ emitted_rx_time(w1) = w1.d_header["rx_time"].v
                              /\ (tag.key = "rx_time"
                                    \/ w1.d_header["rx_time"].v = w0.d_header["rx_time"].v)]

\* new_segment without its update_rx_time().
new_segment_mut(w) ==
  note_size_boundary(w, reset_seg_size(write_and_update(update_last_header(w))))

new_segment(w) ==
  note_size_boundary(
    w, reset_seg_size(write_and_update(update_rx_time(update_last_header(w)))))

\* nwritten += count; d_total_seg_size += count
advance(w) == [w EXCEPT !.nwritten = @ + w.count, !.d_total_seg_size = @ + w.count]

\* while(nwritten < item_offset) { ... }
RECURSIVE write_up_to_tag(_, _)

\* Lines 415-418: a full segment with items left before the tag.
tag_loop_boundary(w, item_offset) ==
  IF w.d_total_seg_size = w.d_max_seg_size /\ w.nwritten < item_offset
  THEN new_segment(w)
  ELSE w

\* The body of the loop after its fwrite.
tag_loop_rest(w, item_offset) ==
  IF w.err # "none" \/ w.count = 0 THEN w
  ELSE write_up_to_tag(tag_loop_boundary(advance(w), item_offset), item_offset)

write_up_to_tag(w, item_offset) ==
  IF w.err # "none" \/ ~(w.nwritten < item_offset) THEN w
  ELSE tag_loop_rest(fwrite_items(w, towrite(w, item_offset - w.nwritten)), item_offset)

\* Lines 422-431: the tag closes a segment that holds payload, or rewrites
\* the header of a segment that holds none.
apply_tag(w, tag) ==
  IF w.err # "none" THEN w
  ELSE LET w0 == note_tag(w, tag)
       IN IF w0.d_total_seg_size > 0
          THEN note_early_close(
                 w0,
                 reset_seg_size(
                   write_and_update(
                     update_header(update_last_header(w0), tag.key, tag.value))),
                 tag)
          ELSE update_last_header(update_header(w0, tag.key, tag.value))

\* for(itr = all_tags.begin(); itr != all_tags.end(); itr++) { ... }
RECURSIVE process_tags(_, _)
process_tags(w, all_tags) ==
  IF w.err # "none" \/ Len(all_tags) = 0 THEN w
  ELSE LET tag == Head(all_tags)
           item_offset == tag.offset - w.nitems_read
       IN process_tags(apply_tag(write_up_to_tag(w, item_offset), tag), Tail(all_tags))

\* while(nwritten < noutput_items) { ... }
RECURSIVE write_tail(_, _)

\* Lines 446-449: a full segment.
tail_loop_boundary(w) ==
  IF w.d_total_seg_size = w.d_max_seg_size THEN new_segment(w) ELSE w

\* The body of the loop after its fwrite.
tail_loop_rest(w, noutput_items) ==
  IF w.err # "none" \/ w.count = 0 THEN w
  ELSE write_tail(tail_loop_boundary(advance(w)), noutput_items)

write_tail(w, noutput_items) ==
  IF w.err # "none" \/ ~(w.nwritten < noutput_items) THEN w
  ELSE tail_loop_rest(fwrite_items(w, towrite(w, noutput_items - w.nwritten)), noutput_items)

\* if(!d_fp) return noutput_items;
drop_on_floor_mut(w, noutput_items) == [w EXCEPT !.ret = 0, !.d_total_seg_size = 0]
drop_on_floor(w, noutput_items) == [w EXCEPT !.ret = noutput_items]

\* return nwritten
return_nwritten(w) == Guard(w, [w EXCEPT !.ret = w.nwritten])

\* work() after do_update(): lines 387-456. The value returned is left in
\* w.ret; an exception leaves it alone.
work_body(w, noutput_items) ==
  IF w.err # "none" THEN w
  ELSE IF w.d_fp = 0 THEN drop_on_floor(w, noutput_items)
  ELSE LET all_tags == get_tags_in_range(w.stream_tags, w.nitems_read,
                                         w.nitems_read + noutput_items)
       IN return_nwritten(write_tail(process_tags(w, all_tags), noutput_items))

work(w, noutput_items) == work_body(do_update(w), noutput_items)

\* ---------------------------------------------------------- constructor

\* The object before the constructor's body runs (lines 78-91).
Blank(detached, itemsize, samp_rate, relative_rate, max_segment_size, tags) ==
  [d_state |-> IF detached THEN "DETACHED" ELSE "INLINE",
   d_itemsize |-> itemsize,
   d_samp_rate |-> samp_rate,
   d_relative_rate |-> relative_rate,
   d_max_seg_size |-> max_segment_size,
   d_total_seg_size |-> 0,
   d_updated |-> FALSE,
   d_fp |-> 0, d_new_fp |-> 0, d_hdr_fp |-> 0, d_new_hdr_fp |-> 0,
   d_header |-> <<>>, d_extra |-> <<>>, d_extra_size |-> 0,
   files |-> <<>>, nitems_read |-> 0, stream_tags |-> tags,
   err |-> "none", tag_log |-> {}, n_opens |-> 0, ret |-> TRUE,
   io |-> <<>>, ub |-> "crash", nwritten |-> 0, count |-> 0,
   zero_at |-> -1, after_zero |-> FALSE, n_size |-> 0, n_early |-> 0,
           ts_ok |-> TRUE]

\* gr_file_meta_sink::gr_file_meta_sink, its file opened and written without
\* an I/O error. rx_rate is stored as samp_rate itself (in halves: * RelDen).
constructor(detached, itemsize, samp_rate, relative_rate, max_segment_size, extra_dict, tags) ==
  LET w0 == open(Blank(detached, itemsize, samp_rate, relative_rate, max_segment_size, tags),
                 "ok", "ok")
      extra_size == ExtraLen(extra_dict)
      header == [k \in HeaderKeys |->
                   CASE k = "version" -> Val(0)
                     [] k = "rx_rate" -> Val(samp_rate * RelDen)
                     [] k = "rx_time" -> Val(<<0, 0>>)
                     [] k = "size" -> Val(itemsize)
                     [] k = "type" -> Val(0)
                     [] k = "cplx" -> Val(FALSE)
                     [] k = "strt" -> Val(METADATA_HEADER_SIZE + extra_size)
                     [] k = "bytes" -> Val(0)]
      w1 == [w0 EXCEPT !.d_extra = extra_dict, !.d_extra_size = extra_size,
                       !.d_header = header]
  IN write_header_by_state(do_update(w1))

\* -------------------------------------------------------- the stream's tags

\* The (key, value) pairs a tag may carry: an upstream rate, an extension
\* entry, an item size of another type than the schema's, and a byte count.
TagKinds ==
  { [key |-> "rx_rate", value |-> Val(8)],
    [key |-> "x", value |-> WideVal(1)],
    [key |-> "size", value |-> WideVal(2)],
    [key |-> "bytes", value |-> Val(99)] }

\* The tags of the kinds `kinds` at offset o.
TagsAt(o, kinds) ==
  { [offset |-> o, key |-> k.key, value |-> k.value] : k \in kinds }

\* The sequences of at most n tags of distinct kinds among `kinds` with
\* lo <= offset < hi, in non-decreasing offset order (the order the scheduler
\* delivers them in).
RECURSIVE TagSeqs(_, _, _, _)
TagSeqs(n, lo, hi, kinds) ==
  IF n <= 0 \/ lo >= hi \/ kinds = {} THEN {<<>>}
  ELSE {<<>>} \cup
       UNION { { <<[offset |-> o, key |-> k.key, value |-> k.value]>> \o s :
                   s \in TagSeqs(n - 1, o, hi, kinds \ {k}) } :
               o \in lo..(hi - 1), k \in kinds }

ExtraDicts == { <<>> }

\* What the fwrite calls of one call return, in order ("ok" once it is out):
\* one fault, at the first, second or third fwrite of the call.
IOResults == {"ok", "short", "zero"}
FaultScripts ==
  {<<a>> : a \in IOResults \ {"ok"}}
    \cup {<<"ok", a>> : a \in IOResults \ {"ok"}}
    \cup {<<"ok", "ok", a>> : a \in IOResults \ {"ok"}}

\* What a use of a null or closed FILE* does in this build.
UBOutcomes == {"crash", "noeffect"}

\* ---------------------------------------------------------------- state

VARIABLES
  sink,         \* the gr_file_meta_sink object: its d_ fields
  files,        \* the files opened so far; a FILE* is an index, 0 is null
  nitems_read,  \* nitems_read(0): the items consumed so far
  stream_tags,  \* the tags of the stream at the offsets handed to work() so
                \* far and not yet consumed
  tags_upto,    \* the stream offset up to which work() has been handed items
  err,          \* the exception that ended the last call, "none" if none
  ret,          \* the value the last open() or work() returned
  call,         \* the last call: its name, noutput_items, and what it did
  last_ctl,     \* the last call of the control path
  open_frame,   \* the open() call in progress: where it is, and its local ret
  work_frame,   \* the work() call in progress: where it is, and its locals
  twin,         \* a second sink, of the other layout, given the same calls
                \* (NoTwin where there is none), the arguments both were
                \* built with and the tags of the stream so far
  tag_log,      \* for each tag applied: its offset and the next item to write
  tags_used,    \* the keys of the tags of the stream so far
  n_opens,      \* the open() calls so far, the constructor's included
  n_ctl,        \* the calls of the control path so far
  n_faults,     \* the I/O faults injected so far
  n_stalls      \* the work() calls that returned 0 so far

vars == <<sink, files, nitems_read, stream_tags, tags_upto, err, ret, call, last_ctl,
          open_frame, work_frame, twin, tag_log,
          tags_used, n_opens, n_ctl, n_faults, n_stalls>>

NoWork == [pc |-> "idle", n |-> 0, nwritten |-> 0, count |-> 0]

NoTwin == [none |-> TRUE]

SinkFields ==
  {"d_state", "d_itemsize", "d_samp_rate", "d_relative_rate", "d_max_seg_size",
   "d_total_seg_size", "d_updated", "d_fp", "d_new_fp", "d_hdr_fp", "d_new_hdr_fp",
   "d_header", "d_extra", "d_extra_size"}

\* The world a call starts in: tags are the tags of the stream the call can see.
World(tags, io, ub) ==
  sink @@ [files |-> files, nitems_read |-> nitems_read, stream_tags |-> tags,
           err |-> err, tag_log |-> tag_log, n_opens |-> n_opens, ret |-> ret,
           io |-> io, ub |-> ub, nwritten |-> 0, count |-> 0,
           zero_at |-> -1, after_zero |-> FALSE, n_size |-> 0, n_early |-> 0,
           ts_ok |-> TRUE]

\* The same for the twin.
TwinWorld(tags, io, ub) ==
  [f \in SinkFields |-> twin[f]]
    @@ [files |-> twin.files, nitems_read |-> twin.nitems_read, stream_tags |-> tags,
        err |-> twin.err, tag_log |-> {}, n_opens |-> 1, ret |-> twin.ret,
        io |-> io, ub |-> ub, nwritten |-> 0, count |-> 0,
        zero_at |-> -1, after_zero |-> FALSE, n_size |-> 0, n_early |-> 0,
        ts_ok |-> TRUE]

\* The twin a call leaves in the world w, with the items it consumed and the
\* tags `fresh` the call has added to the stream.
TwinAfter(w, consumed, fresh) ==
  [f \in SinkFields |-> w[f]]
    @@ [files |-> w.files, err |-> w.err, ret |-> w.ret,
        nitems_read |-> twin.nitems_read + consumed,
        tags |-> twin.tags \o fresh, args |-> twin.args]

\* The state a call leaves.
Install(w) ==
  /\ sink' = [f \in SinkFields |-> w[f]]
  /\ files' = w.files
  /\ err' = w.err
  /\ ret' = w.ret
  /\ tag_log' = w.tag_log
  /\ n_opens' = w.n_opens

Called(op, n, ntags, w) ==
  [op |-> op, n |-> n, ntags |-> ntags, zero_at |-> w.zero_at, after_zero |-> w.after_zero,
   n_size |-> w.n_size, n_early |-> w.n_early, ts_ok |-> w.ts_ok]

Init ==
  \E detached \in BOOLEAN, itemsize \in ItemSizes, samp_rate \in SampRates,
     relative_rate \in RelativeRates, max_segment_size \in MaxSegSizes,
     extra_dict \in ExtraDicts :
    \E w \in {constructor(detached, itemsize, samp_rate, relative_rate,
                          max_segment_size, extra_dict, <<>>)} :
       /\ sink = [f \in SinkFields |-> w[f]]
       /\ files = w.files
       /\ nitems_read = 0
       /\ stream_tags = <<>>
       /\ tags_upto = 0
       /\ err = "none"
       /\ ret = TRUE
       /\ call = Called("constructor", 0, 0, w)
       /\ last_ctl = "constructor"
       /\ open_frame = [pc |-> "idle", ret |-> TRUE]
       /\ work_frame = NoWork
       /\ twin = NoTwin
       /\ tag_log = {}
       /\ tags_used = {}
       /\ n_opens = w.n_opens
       /\ n_ctl = 0
       /\ n_faults = 0
       /\ n_stalls = 0

\* No exception has ended the run.
Alive == err = "none"

Max(a, b) == IF a > b THEN a ELSE b

\* The scheduler calls work() with the next noutput_items items of the stream
\* and the tags on them: those of the items it has handed over before (when
\* an earlier call returned less than it was given) and those of the new items.
WorkCall(io, paired) ==
  \E noutput_items \in 1..MaxItems, ub \in UBOutcomes :
    /\ Alive
    /\ work_frame.pc = "idle"
    /\ nitems_read + noutput_items <= MaxItems
    /\ n_stalls < MaxStalls
    /\ \E fresh \in TagSeqs(MaxTags - Cardinality(tags_used),
                            Max(tags_upto, nitems_read), nitems_read + noutput_items,
                            {k \in TagKinds : k.key \notin tags_used}) :
         LET tags == stream_tags \o fresh
         IN \E w \in {work(World(tags, io, ub), noutput_items)} :
              /\ Install(w)
              /\ nitems_read' = IF w.err = "none" THEN nitems_read + w.ret ELSE nitems_read
              /\ stream_tags' = SelectSeq(tags, LAMBDA t : t.offset >= nitems_read')
              /\ tags_upto' = Max(tags_upto, nitems_read + noutput_items)
              /\ n_stalls' = IF w.err = "none" /\ w.ret = 0 THEN n_stalls + 1 ELSE n_stalls
              /\ tags_used' = tags_used \cup {fresh[i].key : i \in 1..Len(fresh)}
              /\ call' = Called("work", noutput_items,
                                Len(get_tags_in_range(tags, nitems_read,
                                                      nitems_read + noutput_items)), w)
              /\ IF paired
                 THEN \E t \in {work(TwinWorld(SelectSeq(twin.tags \o fresh,
                                                          LAMBDA x : x.offset >= twin.nitems_read),
                                                io, ub), noutput_items)} :
                        twin' = TwinAfter(t, IF t.err = "none" THEN t.ret ELSE 0, fresh)
                 ELSE twin' = twin
    /\ UNCHANGED <<n_ctl, last_ctl, open_frame, work_frame>>

\* work() with every fwrite returning what it was asked for.
Work == WorkCall(<<>>, FALSE) /\ UNCHANGED n_faults

\* work() with an fwrite that returns less.
WorkFault ==
  /\ n_faults < MaxFaults
  /\ n_faults' = n_faults + 1
  /\ \E io \in FaultScripts : WorkCall(io, FALSE)

OpenCall(res_hdr, res_payload) ==
  \E ub \in UBOutcomes :
    /\ Alive
    /\ open_frame.pc = "idle"
    /\ n_ctl < MaxCtl
    /\ n_ctl' = n_ctl + 1
    /\ \E w \in {open(World(stream_tags, <<>>, ub), res_hdr, res_payload)} :
         /\ Install(w)
         /\ call' = Called("open", 0, 0, w)
    /\ last_ctl' = "open"
    /\ twin' = twin
    /\ UNCHANGED <<nitems_read, stream_tags, tags_upto, tags_used, n_stalls, open_frame,
                   work_frame>>

\* The control path calls open() with a new file name.
Open == OpenCall("ok", "ok") /\ UNCHANGED n_faults

\* open() with ::open or fdopen failing on the header file or the payload file.
OpenFault ==
  /\ n_faults < MaxFaults
  /\ n_faults' = n_faults + 1
  /\ \E res_hdr \in OpenResults, res_payload \in OpenResults :
       /\ ~(res_hdr = "ok" /\ res_payload = "ok")
       /\ OpenCall(res_hdr, res_payload)

CloseCall(io, paired) ==
  \E ub \in UBOutcomes :
    /\ Alive
    /\ open_frame.pc = "idle"
    /\ n_ctl < MaxCtl
    /\ n_ctl' = n_ctl + 1
    /\ \E w \in {close(World(stream_tags, io, ub))} :
         /\ Install(w)
         /\ call' = Called("close", 0, 0, w)
    /\ IF paired
       THEN \E t \in {close(TwinWorld(<<>>, io, ub))} : twin' = TwinAfter(t, 0, <<>>)
       ELSE twin' = twin
    /\ last_ctl' = "close"
    /\ UNCHANGED <<nitems_read, stream_tags, tags_upto, tags_used, n_stalls, open_frame,
                   work_frame>>

\* The control path calls close().
Close == CloseCall(<<>>, FALSE) /\ UNCHANGED n_faults

\* close() with an fwrite of the header that returns less.
CloseFault ==
  /\ n_faults < MaxFaults
  /\ n_faults' = n_faults + 1
  /\ \E io \in FaultScripts : CloseCall(io, FALSE)

\* Every call runs to its end before the next one starts.
Next == Work \/ WorkFault \/ Open \/ OpenFault \/ Close \/ CloseFault

Spec == Init /\ [][Next]_vars

\* The same with every ::open, fdopen and fwrite succeeding.
NextNoFault == Work \/ Open \/ Close

SpecNoFault == Init /\ [][NextNoFault]_vars

\* work() calls alone, with and without fwrite faults.
NextWork == Work \/ WorkFault

SpecWork == Init /\ [][NextWork]_vars

\* ------------------------------------------- open() beside a running work()

\* open() runs on the control thread while the scheduler's thread runs work().
\* Each _open holds d_mutex from its first statement to its last, and so does
\* the block of do_update; d_updated = true is stored with no lock held. The
\* steps of open() are therefore its two _open calls and the store; work()
\* is one step, since after do_update it touches nothing open() touches.

\* What a step of open() leaves: the fields, the files, the exception.
InstallStep(w) ==
  /\ sink' = [f \in SinkFields |-> w[f]]
  /\ files' = w.files
  /\ err' = w.err
  /\ n_opens' = w.n_opens

\* open() up to the return of _open(&d_new_hdr_fp, ...)
OpenHdr ==
  \E ub \in UBOutcomes :
    /\ Alive
    /\ open_frame.pc = "idle"
    /\ n_ctl < MaxCtl
    /\ n_ctl' = n_ctl + 1
    /\ last_ctl' = "open"
    /\ \E w \in {open_hdr(World(stream_tags, <<>>, ub), "ok")} :
         /\ InstallStep(w)
         /\ open_frame' = [pc |-> "payload", ret |-> w.ret]
    /\ UNCHANGED <<nitems_read, stream_tags, tags_upto, tags_used, n_stalls, n_faults,
                   ret, call, tag_log, twin, work_frame>>

\* ret = ret && _open(&d_new_fp, ...)
OpenPayload ==
  \E ub \in UBOutcomes :
    /\ Alive
    /\ open_frame.pc = "payload"
    /\ \E w \in {open_payload([World(stream_tags, <<>>, ub) EXCEPT !.ret = open_frame.ret],
                               "ok")} :
         /\ InstallStep(w)
         /\ open_frame' = [pc |-> "flag", ret |-> w.ret]
    /\ UNCHANGED <<nitems_read, stream_tags, tags_upto, tags_used, n_stalls, n_faults,
                   ret, call, tag_log, n_ctl, last_ctl, twin, work_frame>>

\* d_updated = true; return ret
OpenFlag ==
  /\ Alive
  /\ open_frame.pc = "flag"
  /\ \E w \in {open_flag([World(stream_tags, <<>>, "noeffect") EXCEPT !.ret = open_frame.ret])} :
       /\ InstallStep(w)
       /\ ret' = w.ret
       /\ call' = Called("open", 0, 0, w)
  /\ open_frame' = [pc |-> "idle", ret |-> TRUE]
  /\ UNCHANGED <<nitems_read, stream_tags, tags_upto, tags_used, n_stalls, n_faults,
                 tag_log, n_ctl, last_ctl, twin, work_frame>>

NextConc == OpenHdr \/ OpenPayload \/ OpenFlag \/ Close \/ Work

SpecConc == Init /\ [][NextConc]_vars

\* ------------------------------------------------------------- properties

\* The cells of every file.
AllCells == UNION { {files[f].cells[j] : j \in 1..Len(files[f].cells)} : f \in 1..Len(files) }

\* The file headers are written to.
HdrTarget(s) == IF s.d_state = "DETACHED" THEN s.d_hdr_fp ELSE s.d_fp

\* The header records of a file: the headers at the cells that start one.
HeaderStarts(cells) == { j \in 1..Len(cells) : cells[j].k = "H" /\ cells[j].i = 1 }

\* The last header record of a file (the trailing header).
LastHeader(cells) ==
  LET js == HeaderStarts(cells)
      j == CHOOSE x \in js : \A y \in js : y <= x
  IN cells[j].d

RECURSIVE SumBytes(_, _)
SumBytes(cells, js) ==
  IF js = {} THEN 0
  ELSE LET j == CHOOSE x \in js : TRUE
       IN cells[j].d["bytes"].v + SumBytes(cells, js \ {j})

\* The step is a call of work().
WorkStep ==
  call'.op = "work" /\ n_ctl' = n_ctl /\ open_frame' = open_frame /\ vars' # vars

\* The step is a call of work() that installs the files of a successful open()
\* in place of the active ones.
Activation ==
  /\ WorkStep
  /\ sink.d_updated /\ last_ctl = "open" /\ ret = TRUE
  /\ sink.d_fp # 0 /\ sink.d_new_fp # 0
  /\ err' = "none"

\* C1: no header record in a file, and not the header in memory, carries a
\* segment_byte_count above item_size * max_segment_items, and the item count
\* of the open segment never exceeds max_segment_items.
C1_SegmentCap ==
  /\ sink.d_total_seg_size <= sink.d_max_seg_size
  /\ sink.d_header["bytes"].v <= sink.d_itemsize * sink.d_max_seg_size
  /\ \A c \in AllCells :
       c.k = "H" => c.d["bytes"].v <= sink.d_itemsize * sink.d_max_seg_size

\* A segment was filled to the cap and closed, a tag was applied, and the
\* stream went on.
C1_Witness ==
  /\ \E c \in AllCells : c.k = "H" /\ c.d["bytes"].v = sink.d_itemsize * sink.d_max_seg_size
  /\ tag_log # {}
  /\ nitems_read > sink.d_max_seg_size
  /\ n_faults > 0

\* C2: after work() calls without tags and then close(), the byte counts of
\* the header records of the output add up to item_size times the items the
\* work() calls returned.
C2_SumOfByteCounts ==
  (call.op = "close" /\ err = "none" /\ tags_used = {} /\ n_opens = 1)
    => LET cells == files[HdrTarget(sink)].cells
       IN SumBytes(cells, HeaderStarts(cells)) = sink.d_itemsize * nitems_read

\* close() after work() calls that filled one segment and started the next.
C2_Witness ==
  /\ call.op = "close" /\ err = "none" /\ tags_used = {} /\ n_opens = 1
  /\ nitems_read > sink.d_max_seg_size
  /\ Cardinality(HeaderStarts(files[HdrTarget(sink)].cells)) > 1

\* C3: a tag at offset k is applied to the header of the segment whose first
\* payload item is stream item k.
C3_OffsetExact == err = "none" => \A t \in tag_log : t.offset = t.at

\* The open() call a handle comes from: 1 for the constructor's; 0 for null.
Gen(fp) == IF fp = 0 THEN 0 ELSE files[fp].gen

\* C4: in detached mode the header handle and the payload handle work() has
\* installed come from the same open() call.
C4_NoHalfSwap ==
  (sink.d_state = "DETACHED" /\ call.op = "work" /\ err = "none")
    => Gen(sink.d_hdr_fp) = Gen(sink.d_fp)

\* C5: when work() installs the files of a successful open(), the trailing
\* header of the file it closes carries the byte count of its last segment.
C5_RotationFinalizesOld ==
  [][Activation =>
       LastHeader(files'[HdrTarget(sink)].cells)["bytes"].v
         = sink.d_itemsize * sink.d_total_seg_size]_vars

\* C6: the file installed by a rotation starts with a header record, written
\* before any payload, and the item count of the open segment restarts with it.
C6_RotationStartsWithHeader ==
  [][Activation =>
       /\ LET cells == files'[HdrTarget(sink')].cells
          IN Len(cells) > 0 /\ cells[1].k = "H" /\ cells[1].i = 1
       /\ sink'.d_total_seg_size <= ret']_vars

\* C7: close() on a writer that is closed already changes no file and no
\* field of the writer, and does not fail.
C7_CloseIdempotent ==
  [][(last_ctl = "close" /\ call'.op = "close" /\ n_ctl' # n_ctl)
       => (err' = "none" /\ files' = files /\ sink' = sink)]_vars

\* C8: a work() call that finds no payload handle after do_update() returns
\* noutput_items, writes to no file and leaves the header, the extension
\* dictionary, extra_size and the segment's item count alone.
C8_DisabledSink ==
  [][(WorkStep /\ err' = "none" /\ sink'.d_fp = 0)
       => /\ ret' = call'.n
          /\ \A f \in 1..Len(files) : files'[f].cells = files[f].cells
          /\ Len(files') = Len(files)
          /\ sink'.d_header = sink.d_header
          /\ sink'.d_extra = sink.d_extra
          /\ sink'.d_extra_size = sink.d_extra_size
          /\ sink'.d_total_seg_size = sink.d_total_seg_size]_vars

\* A work() call with tags on its items found the sink disabled.
C8_Witness ==
  /\ call.op = "work" /\ err = "none" /\ sink.d_fp = 0
  /\ call.ntags > 0 /\ ret = call.n
  /\ sink.d_total_seg_size > 0

\* C9: write_header writes nothing when the serialized header is not
\* METADATA_HEADER_SIZE long: no file holds a cell of such a header.
C9_NoWrongSizeHeader ==
  \A c \in AllCells : c.k = "H" => HeaderLen(c.d) = METADATA_HEADER_SIZE

\* C10: after a payload fwrite of a work() call returned 0, the call writes no
\* more payload and applies no more tags, and returns the items written before.
C10_WriteFailureAborts ==
  (call.op = "work" /\ err = "none" /\ call.zero_at >= 0)
    => (~call.after_zero /\ ret = call.zero_at)

\* C11: the rx_rate field of the header is the upstream rate (the samp_rate of
\* the constructor until an rx_rate tag replaces it) times relative_rate, the
\* rate update_rx_time divides by. Rates are in halves of an item per second.
C11_EffectiveRate ==
  sink.d_header["rx_rate"].v = sink.d_samp_rate * sink.d_relative_rate

RxTimeRates == {1, 4}

\* A sink whose header holds any timestamp with its fraction in [0, 1), whose
\* open segment holds any number of items, at one of the rates.
InitRxTime ==
  \E detached \in BOOLEAN, itemsize \in ItemSizes, samp_rate \in RxTimeRates,
     relative_rate \in RelativeRates, max_segment_size \in MaxSegSizes,
     secs \in 0..MaxSecs, fracs \in 0..(TimeDen - 1), total \in 0..MaxItems :
    \E w \in {constructor(detached, itemsize, samp_rate, relative_rate,
                          max_segment_size, <<>>, <<>>)} :
       /\ sink = [f \in SinkFields |->
                    IF f = "d_header"
                    THEN pmt_dict_add(w.d_header, "rx_time", Val(<<secs, fracs>>))
                    ELSE IF f = "d_total_seg_size" THEN total
                    ELSE w[f]]
       /\ files = w.files
       /\ nitems_read = 0
       /\ stream_tags = <<>>
       /\ tags_upto = 0
       /\ err = "none"
       /\ ret = TRUE
       /\ call = Called("constructor", 0, 0, w)
       /\ last_ctl = "constructor"
       /\ open_frame = [pc |-> "idle", ret |-> TRUE]
       /\ work_frame = NoWork
       /\ twin = NoTwin
       /\ tag_log = {}
       /\ tags_used = {}
       /\ n_opens = w.n_opens
       /\ n_ctl = 0
       /\ n_faults = 0
       /\ n_stalls = 0

\* One call of update_rx_time().
ApplyRxTime ==
  /\ call.op = "constructor"
  /\ \E w \in {update_rx_time(World(<<>>, <<>>, "crash"))} :
       /\ sink' = [f \in SinkFields |-> w[f]]
       /\ call' = Called("update_rx_time", 0, 0, w)
  /\ UNCHANGED <<files, nitems_read, stream_tags, tags_upto, err, ret, last_ctl,
                 open_frame, work_frame, twin, tag_log, tags_used, n_opens, n_ctl,
                 n_faults, n_stalls>>

NextRxTime == ApplyRxTime

SpecRxTime == InitRxTime /\ [][NextRxTime]_vars

\* C13: update_rx_time turns a timestamp (secs, fracs) with fracs in [0, 1)
\* and an elapsed time d >= 0 into (secs', fracs') with fracs' in [0, 1) and
\* secs' + fracs' = secs + fracs + d (all in 1/TimeDen seconds).
C13_TimestampCarry ==
  [][(call.op = "constructor" /\ call'.op = "update_rx_time")
       => LET t == sink.d_header["rx_time"].v
              t2 == sink'.d_header["rx_time"].v
              d == (sink.d_total_seg_size * RelDen * TimeDen)
                     \div (sink.d_samp_rate * sink.d_relative_rate)
          IN /\ d >= 0
             /\ t2[2] \in 0..(TimeDen - 1)
             /\ t2[1] >= t[1]
             /\ Ticks(t2) = Ticks(t) + d]_vars

\* secs = 10, fracs = 0.7 and 0.5 s elapsed (one item at 2 items per second)
\* have become secs = 11, fracs = 0.2.
C13_Witness ==
  /\ call.op = "update_rx_time"
  /\ sink.d_header["rx_time"].v = <<11, 2>>
  /\ sink.d_total_seg_size = 1
  /\ sink.d_samp_rate = 4 /\ sink.d_relative_rate = 1


\* ------------------------------------------ the two layouts side by side

\* An inline sink and a detached sink built with the same arguments.
InitTwin ==
  \E itemsize \in ItemSizes, samp_rate \in SampRates,
     relative_rate \in RelativeRates, max_segment_size \in MaxSegSizes,
     extra_dict \in ExtraDicts :
    \E w \in {constructor(FALSE, itemsize, samp_rate, relative_rate,
                          max_segment_size, extra_dict, <<>>)},
       t \in {constructor(TRUE, itemsize, samp_rate, relative_rate,
                          max_segment_size, extra_dict, <<>>)} :
       /\ sink = [f \in SinkFields |-> w[f]]
       /\ files = w.files
       /\ nitems_read = 0
       /\ stream_tags = <<>>
       /\ tags_upto = 0
       /\ err = "none"
       /\ ret = TRUE
       /\ call = Called("constructor", 0, 0, w)
       /\ last_ctl = "constructor"
       /\ open_frame = [pc |-> "idle", ret |-> TRUE]
       /\ work_frame = NoWork
       /\ twin = [f \in SinkFields |-> t[f]]
                   @@ [files |-> t.files, err |-> "none", ret |-> TRUE,
                       nitems_read |-> 0, tags |-> <<>>,
                       args |-> [itemsize |-> itemsize, samp_rate |-> samp_rate,
                                 relative_rate |-> relative_rate,
                                 max_segment_size |-> max_segment_size,
                                 extra_dict |-> extra_dict]]
       /\ tag_log = {}
       /\ tags_used = {}
       /\ n_opens = w.n_opens
       /\ n_ctl = 0
       /\ n_faults = 0
       /\ n_stalls = 0

\* The same work() call on both sinks.
TwinWork == WorkCall(<<>>, TRUE) /\ UNCHANGED n_faults

\* The same close() call on both sinks.
TwinClose == CloseCall(<<>>, TRUE) /\ UNCHANGED n_faults

NextTwin == TwinWork \/ TwinClose

SpecTwin == InitTwin /\ [][NextTwin]_vars

\* The cells of a sequence that belong to a header or extension record.
Records(cells) == SelectSeq(cells, LAMBDA c : c.k \in {"H", "E"})

\* The other cells of a sequence.
Payload(cells) == SelectSeq(cells, LAMBDA c : c.k \notin {"H", "E"})

\* Both sinks have been closed for the first time.
TwinClosed == twin # NoTwin /\ call.op = "close" /\ n_ctl = 1

\* C14: after the same work() calls, the same annotations and a final close(),
\* the header file of the detached sink holds the header and extension
\* records of the inline file in the same order, and its payload file holds
\* the payload runs of the inline file one after the other.
C14_LayoutEquivalence ==
  TwinClosed =>
    /\ twin.err = err
    /\ err = "none" =>
         /\ twin.files[twin.d_hdr_fp].cells = Records(files[sink.d_fp].cells)
         /\ twin.files[twin.d_fp].cells = Payload(files[sink.d_fp].cells)

\* The header records of the file the sink writes headers to.
HeadersOf(s, fs) == HeaderStarts(fs[HdrTarget(s)].cells)

\* Every header record of the file but the last describes a segment with
\* payload in it.
ClosedSegmentsNonEmpty(s, fs) ==
  \A j \in HeadersOf(s, fs) :
    (\E x \in HeadersOf(s, fs) : x > j) => fs[HdrTarget(s)].cells[j].d["bytes"].v > 0

\* C15: a work() call adds one header record for each segment it closes at
\* the segment size and one for each annotation that arrives after payload,
\* and none for an annotation that arrives on an empty segment (that one is
\* rewritten in place); every header record except the last of a file
\* describes more than zero bytes.
C15_NoEmptySegments ==
  [][(WorkStep /\ err' = "none" /\ ~sink.d_updated)
       => /\ Cardinality(HeadersOf(sink', files'))
               = Cardinality(HeadersOf(sink, files)) + call'.n_size + call'.n_early
          /\ ClosedSegmentsNonEmpty(sink', files')]_vars

\* The step is a call of close().
CloseStep == call'.op = "close" /\ n_ctl' = n_ctl + 1

\* The length of the header record and the payload of the open segment.
SegmentLen(s) ==
  HeaderLen(s.d_header) + ExtraLen(s.d_extra) + s.d_itemsize * s.d_total_seg_size

\* The inline file ends with the most recent header record followed by the
\* payload of its segment, and the cursor is at the end of that payload.
InlineExact(s, fs) ==
  LET f == fs[s.d_fp]
      n == Len(f.cells)
  IN /\ f.pos = n
     /\ n >= SegmentLen(s)
     /\ HeaderStarts(f.cells) # {}
     /\ \A j \in HeaderStarts(f.cells) : j <= n - SegmentLen(s) + 1
     /\ (n - SegmentLen(s) + 1) \in HeaderStarts(f.cells)
     /\ \A j \in 1..n : f.cells[j].k # "Z"

\* The cells of the file before its most recent header record, and the payload
\* after that record, are as they were.
InlineFrame(s, fs, fs2) ==
  LET old == fs[s.d_fp].cells
      new == fs2[s.d_fp].cells
      h == Len(old) - SegmentLen(s) + 1
  IN /\ Len(new) >= Len(old)
     /\ \A j \in 1..Len(old) :
          (j < h \/ j >= h + HeaderLen(s.d_header) + ExtraLen(s.d_extra))
            => new[j] = old[j]

\* C16: in the inline layout, after any work() or close() call (writes,
\* annotations, extension-size changes, rotations), the header rewritten is
\* the most recent header record of the file, no payload byte and no earlier
\* header record has been modified, and the cursor is at the end of the
\* segment's payload.
C16_InlineFinalizationExact ==
  [][(sink.d_state = "INLINE" /\ (WorkStep \/ CloseStep) /\ err' = "none"
        /\ sink'.d_fp # 0)
       => /\ InlineExact(sink', files')
          /\ (sink'.d_fp = sink.d_fp /\ InlineExact(sink, files))
               => InlineFrame(sink, files, files')]_vars

\* C17: after an open() that failed, the active handles stay installed and
\* the next work() call keeps writing to the files that were active before.
C17_FailedOpenKeepsActive ==
  [][(call.op = "open" /\ ret = FALSE /\ err = "none" /\ sink.d_fp # 0
        /\ WorkStep /\ err' = "none")
       => /\ sink'.d_fp = sink.d_fp
          /\ sink'.d_hdr_fp = sink.d_hdr_fp
          /\ files'[sink.d_fp].open]_vars

\* The step is a call of open().
OpenStep == call'.op = "open" /\ n_ctl' = n_ctl + 1

\* C18: open() called while an earlier rotation is still pending closes the
\* earlier pending handle, makes the new file the pending one, completes
\* normally and reports success, and leaves the active handle as it was.
C18_ReopenPending ==
  [][(OpenStep /\ err = "none" /\ sink.d_new_fp # 0)
       => /\ err' = "none"
          /\ ret' = TRUE
          /\ ~files'[sink.d_new_fp].open
          /\ sink'.d_new_fp \notin {0, sink.d_new_fp}
          /\ files'[sink'.d_new_fp].open
          /\ sink'.d_fp = sink.d_fp
          /\ files'[sink.d_fp] = files[sink.d_fp]]_vars

\* ------------------------------------------------ one call or several

\* A sink built as this one was, given the whole stream written so far in one
\* work() call, and closed.
OneShot(detached) ==
  close(work(constructor(detached, twin.args.itemsize, twin.args.samp_rate,
                         twin.args.relative_rate, twin.args.max_segment_size,
                         twin.args.extra_dict, twin.tags),
             nitems_read))

\* The files of the sink s are those the run r left.
SameFiles(r, s, fs) ==
  /\ r.err = "none"
  /\ r.files[r.d_fp].cells = fs[s.d_fp].cells
  /\ s.d_state = "DETACHED" => r.files[r.d_hdr_fp].cells = fs[s.d_hdr_fp].cells

\* C19: the files a stream leaves after close() are the same however the
\* scheduler split the stream into work() calls: they are the files that one
\* work() call with the whole stream leaves.
C19_SplitIndependent ==
  (TwinClosed /\ err = "none" /\ twin.err = "none")
    => /\ SameFiles(OneShot(FALSE), sink, files)
       /\ SameFiles(OneShot(TRUE), twin, twin.files)

\* ------------------------------------------ close() beside a running work()

\* close() holds d_mutex from its first statement to its last. work() holds
\* it inside do_update() only: the fwrite calls, the counters and the header
\* rewrites of lines 387-456 run with no lock held, so close() can run between
\* any two of them. The steps of work() here are the call up to the return
\* of the first fwrite of the loop after the tags, and the rest of the call.

\* work() up to the return of the fwrite of line 440.
WorkBegin ==
  \E noutput_items \in 1..MaxItems, ub \in UBOutcomes :
    /\ Alive
    /\ work_frame.pc = "idle"
    /\ open_frame.pc = "idle"
    /\ nitems_read + noutput_items <= MaxItems
    /\ \E w0 \in {process_tags(do_update(World(stream_tags, <<>>, ub)),
                               get_tags_in_range(stream_tags, nitems_read,
                                                 nitems_read + noutput_items))} :
         /\ w0.err = "none"
         /\ w0.d_fp # 0
         /\ w0.nwritten < noutput_items
         /\ \E w \in {fwrite_items(w0, towrite(w0, noutput_items - w0.nwritten))} :
              /\ InstallStep(w)
              /\ tag_log' = w.tag_log
              /\ work_frame' = [pc |-> "written", n |-> noutput_items,
                                nwritten |-> w.nwritten, count |-> w.count]
    /\ UNCHANGED <<nitems_read, stream_tags, tags_upto, tags_used, n_stalls, n_faults,
                   ret, call, n_ctl, last_ctl, open_frame, twin>>

\* The rest of the call: lines 441-456.
WorkEnd ==
  \E ub \in UBOutcomes :
    /\ Alive
    /\ work_frame.pc = "written"
    /\ \E w \in {return_nwritten(
                   tail_loop_rest([World(stream_tags, <<>>, ub)
                                     EXCEPT !.nwritten = work_frame.nwritten,
                                            !.count = work_frame.count],
                                  work_frame.n))} :
         /\ Install(w)
         /\ nitems_read' = IF w.err = "none" THEN nitems_read + w.ret ELSE nitems_read
         /\ stream_tags' = SelectSeq(stream_tags, LAMBDA t : t.offset >= nitems_read')
         /\ tags_upto' = Max(tags_upto, nitems_read + work_frame.n)
         /\ call' = Called("work", work_frame.n, 0, w)
    /\ work_frame' = NoWork
    /\ UNCHANGED <<tags_used, n_stalls, n_faults, n_ctl, last_ctl, open_frame, twin>>

NextRace == WorkBegin \/ WorkEnd \/ Close \/ Open \/ Work

SpecRace == Init /\ [][NextRace]_vars

\* C20: close() never runs between a write of a work() call and the rest of
\* that call: the header rewrite of close() and the payload and header
\* writes of work() on the active file do not interleave.
C20_CloseExcludesWork == [][CloseStep => work_frame.pc = "idle"]_vars

====
